---- MODULE Spec2Model ----
(***************************************************************************)
(* Model of src/main.py: the DCON transport (DCONController), the wx main  *)
(* thread that runs the handlers of MainFrame one at a time, and the       *)
(* sequencer thread that runs MainFrame.run_forward_test.                  *)
(*                                                                         *)
(* Pressures are integers in hundredths of an atmosphere (the code rounds  *)
(* to 2 decimals); currents are integers in microamperes.                  *)
(***************************************************************************)
EXTENDS Integers, Sequences, FiniteSets

\* ---------------------------------------------------------------- bounds
\* Length of plus_dim_press (41 in the source) and number of ramp steps
\* (plus_step, 80 in the source), scaled down; the source's relation
\* "array shorter than the ramp" is kept.
DimLen == 1
StepCount == 2
\* Events of the environment in one behaviour: button clicks and the
\* window close, timer ticks, and writes that fail.
MaxEvents == 2
\* serial.Serial objects a client of the controller may create in one
\* behaviour.
MaxHandles == 3

\* ------------------------------------------------------- program constants
adrDO == 1
adrAO == 2
valve1 == 1
valve2 == 4
valve3 == 3
valve4 == 2
startPUMP == 5
plusPUMP == 6
minusPUMP == 7
pressureChanel == 5
minMA == 3860
maxMA == 19368
minP == 0
maxP == 6

Channels == {valve1, valve2, valve3, valve4, startPUMP, plusPUMP, minusPUMP}
Threads == {"ui", "seq"}

\* The raw current reading (microamperes) the analog module answers with
\* when it answers well: 7.737 mA, which is 1.50 atm.
RawValues == {7737}
NonNumeric == -1

\* The lines ser.readline() may return, already split on whitespace; a
\* token is a raw reading or NonNumeric.  <<>> is the empty line of a
\* timeout.
Line(r) == <<0, 0, 0, 0, 0, r>>
Responses == {<<>>, <<0>>} \cup {Line(r) : r \in RawValues \cup {NonNumeric}}

VARIABLES
    lock,            \* DCONController.lock: "free" or the thread holding it
    ser,             \* DCONController.ser: "none", "open" or "closed"
    handles,         \* the serial.Serial objects created so far, TRUE for one that is
                     \* open; self.ser is the last one
    cal,             \* the calibration: minMA, maxMA, minP, maxP
    last,            \* what the step just taken did at the port and what it gave
                     \* back to its caller; NoExchange after any other step
    out,             \* device outputs: value of the last write that reached the port
    xph,             \* per thread: phase of its current exchange
    pressurePOSLE,
    stop_igra,
    plus_counter,
    minus_counter,
    fixed_open,
    plus_dim_press,
    is_test_running,
    btn,             \* button colours, as "the colour that means on"
    ui_h,            \* handler the main thread is in, or "idle"
    ui_i,            \* index of the exchange the handler is at
    ui_src,          \* "user" or "queue": how the handler was dispatched
    queue,           \* wx.CallAfter callbacks not yet dispatched
    later,           \* wx.CallLater callbacks not yet fired
    closed,          \* on_close has run
    seq_pc,          \* position of the sequencer thread
    seq_i,           \* index of the baseline write
    step,            \* loop variable of the ramp loop
    run_error,       \* exception caught by run_forward_test's except clause
    progress,        \* steps for which update_graph/log_message were posted
    start_result,    \* what the last on_forward_test did
    cmds,            \* writes attempted so far by the current run ("seq") and on_stop ("ui")
    on_cmds,         \* channels commanded 1 since the current run was started
    events           \* environment events so far (clicks, ticks, failed writes)

vars == <<lock, ser, handles, cal, last, out, xph, pressurePOSLE, stop_igra, plus_counter,
          minus_counter, fixed_open, plus_dim_press, is_test_running, btn,
          ui_h, ui_i, ui_src, queue, later, closed, seq_pc, seq_i, step,
          run_error, progress, start_result, cmds, on_cmds, events>>

transportVars == <<lock, ser, handles, cal, out, xph, cmds, on_cmds>>
uiVars == <<btn, ui_h, ui_i, ui_src, later, closed, start_result>>
seqVars == <<seq_pc, seq_i, step, run_error, progress, fixed_open,
             plus_dim_press, is_test_running>>
ctlVars == <<stop_igra, plus_counter, minus_counter>>

\* The value of last after a step that made no exchange.
NoExchange == [t |-> "none", k |-> "none", why |-> "none", connects |-> 0,
               writes |-> 0, args |-> <<>>, raw |-> -1, value |-> -1,
               log |-> "none", printed |-> FALSE]

Buttons == {"btn_pump", "btn_to_forward", "btn_to_revers", "btn_from_forward",
            "btn_from_revers"}

\* DCONController.__init__ and MainFrame.__init__/init_ui, with calibration
\* calib: init_ui calls connect(), which may fail and leave ser = None.
Constructed(calib) ==
    /\ lock = "free"
    /\ ser \in {"none", "open"}
    /\ handles = IF ser = "open" THEN <<TRUE>> ELSE <<>>
    /\ cal = calib
    /\ last = NoExchange
    /\ out = [c \in Channels |-> 0]
    /\ xph = [t \in Threads |-> "none"]
    /\ pressurePOSLE = 0
    /\ stop_igra = FALSE
    /\ plus_counter = 0
    /\ minus_counter = 0
    /\ fixed_open = 0
    /\ plus_dim_press = [i \in 1..DimLen |-> 0]
    /\ is_test_running = FALSE
    /\ btn = [b \in Buttons |-> FALSE]
    /\ ui_h = "idle"
    /\ ui_i = 0
    /\ ui_src = "user"
    /\ queue = <<>>
    /\ later = <<>>
    /\ closed = FALSE
    /\ seq_pc = "idle"
    /\ seq_i = 0
    /\ step = 0
    /\ run_error = "none"
    /\ progress = {}
    /\ start_result = "none"
    /\ cmds = [t \in Threads |-> <<>>]
    /\ on_cmds = {}
    /\ events = 0

\* The calibration DCONController.__init__ sets.
DefaultCal == [minMA |-> minMA, maxMA |-> maxMA, minP |-> minP, maxP |-> maxP]

Init == Constructed(DefaultCal)

\* The calibrations a client of the controller may have set.
Calibrations == [minMA : {minMA, 4000}, maxMA : {maxMA, 20000},
                 minP : {minP, 1}, maxP : {maxP, 10}]


\* ------------------------------------------------------------ pure helpers
None == -1

Abs(x) == IF x < 0 THEN -x ELSE x

\* ------------------------------------------------ Python float arithmetic
\* A natural number of any size: its digits in base 2^15, least significant
\* first, with no leading zero digit (<<>> is 0).
DigitBits == 15
Base == 2^DigitBits
RECURSIVE NatOf(_)
NatOf(x) == IF x = 0 THEN <<>> ELSE <<x % Base>> \o NatOf(x \div Base)
RECURSIVE IntOf(_)
IntOf(n) == IF n = <<>> THEN 0 ELSE n[1] + Base * IntOf(Tail(n))
RECURSIVE Trim(_)
Trim(n) == IF n = <<>> \/ n[Len(n)] # 0 THEN n ELSE Trim(SubSeq(n, 1, Len(n) - 1))
Digit(n, i) == IF i >= 1 /\ i <= Len(n) THEN n[i] ELSE 0
Rest(n) == IF n = <<>> THEN n ELSE Tail(n)
RECURSIVE AddC(_, _, _)
AddC(a, b, c) ==
    IF a = <<>> /\ b = <<>> THEN (IF c = 0 THEN <<>> ELSE <<c>>)
    ELSE LET s == Digit(a, 1) + Digit(b, 1) + c
         IN <<s % Base>> \o AddC(Rest(a), Rest(b), s \div Base)
NatAdd(a, b) == AddC(a, b, 0)
RECURSIVE SubB(_, _, _)
SubB(a, b, c) ==
    IF a = <<>> THEN <<>>
    ELSE LET d == a[1] - Digit(b, 1) - c
         IN <<(d + Base) % Base>> \o SubB(Tail(a), Rest(b), IF d < 0 THEN 1 ELSE 0)
\* a - b, for a >= b
NatSub(a, b) == Trim(SubB(a, b, 0))
NatLess(a, b) ==
    IF Len(a) # Len(b) THEN Len(a) < Len(b)
    ELSE \E i \in 1..Len(a) :
            a[i] < b[i] /\ \A j \in (i + 1)..Len(a) : a[j] = b[j]
\* a * x + c, for digits x and c
RECURSIVE MulDigit(_, _, _)
MulDigit(a, x, c) ==
    IF a = <<>> THEN (IF c = 0 THEN <<>> ELSE <<c>>)
    ELSE LET p == a[1] * x + c
         IN <<p % Base>> \o MulDigit(Tail(a), x, p \div Base)
\* n * Base^w
ShiftDigits(n, w) == IF n = <<>> THEN <<>> ELSE [i \in 1..w |-> 0] \o n
RECURSIVE NatMul(_, _)
NatMul(a, b) ==
    IF b = <<>> THEN <<>>
    ELSE NatAdd(Trim(MulDigit(a, b[1], 0)), ShiftDigits(NatMul(a, Tail(b)), 1))
\* n * 2^k
Shl(n, k) == ShiftDigits(Trim(MulDigit(n, 2^(k % DigitBits), 0)), k \div DigitBits)
\* n \div 2^k
Shr(n, k) ==
    LET w == k \div DigitBits
        s == k % DigitBits
    IN Trim([i \in 1..(Len(n) - w) |->
                (n[i + w] \div 2^s) + (Digit(n, i + w + 1) % 2^s) * 2^(DigitBits - s)])
\* The number of binary digits of n, and its i-th binary digit from the
\* least significant one.
BitLen(n) ==
    IF n = <<>> THEN 0
    ELSE DigitBits * (Len(n) - 1)
           + CHOOSE j \in 1..DigitBits : 2^(j - 1) <= n[Len(n)] /\ n[Len(n)] < 2^j
BitAt(n, i) == (Digit(n, (i - 1) \div DigitBits + 1) \div 2^((i - 1) % DigitBits)) % 2
\* One step of long division by d # 0: the quotient and remainder st of the
\* binary digits above, extended by the binary digit x.
DivStep(st, x, d) ==
    LET r2 == NatAdd(NatAdd(st.r, st.r), NatOf(x))
        ge == ~NatLess(r2, d)
    IN [q |-> NatAdd(NatAdd(st.q, st.q), NatOf(IF ge THEN 1 ELSE 0)),
        r |-> IF ge THEN NatSub(r2, d) ELSE r2]
\* Long division continued through the binary digits hi down to lo of n,
\* the upper half of them first (the test on its result has it computed
\* before the lower half is entered).
RECURSIVE DivRange(_, _, _, _, _)
DivRange(n, d, st, lo, hi) ==
    IF lo = hi THEN DivStep(st, BitAt(n, lo), d)
    ELSE LET mid == (lo + hi) \div 2
             upper == DivRange(n, d, st, mid + 1, hi)
         IN IF upper.q = <<>> /\ upper.r = <<>>
            THEN DivRange(n, d, [q |-> <<>>, r |-> <<>>], lo, mid)
            ELSE DivRange(n, d, upper, lo, mid)
\* Quotient q and remainder r of n by d # 0
NatDivMod(n, d) ==
    IF n = <<>> THEN [q |-> <<>>, r |-> <<>>]
    ELSE DivRange(n, d, [q |-> <<>>, r |-> <<>>], 1, BitLen(n))

\* A Python float (IEEE 754 binary64, in its normal range): the value
\* (-1)^neg * m * 2^e, with m of exactly 53 binary digits, or m = <<>> for
\* zero.  FloatRound: the float nearest to n * 2^e, a tie going to the even
\* m; inexact says that the value meant is a little more than n * 2^e (less
\* than one unit of n more), as after a division that left a remainder.
FloatRound(neg, n, e, inexact) ==
    IF n = <<>> THEN [neg |-> neg, m |-> <<>>, e |-> 0]
    ELSE IF BitLen(n) <= 53
         THEN [neg |-> neg, m |-> Shl(n, 53 - BitLen(n)), e |-> e - (53 - BitLen(n))]
         ELSE LET k == BitLen(n) - 53
                  kept == Shr(n, k)
                  more == inexact \/ Shl(Shr(n, k - 1), k - 1) # n
                  up == BitAt(n, k) = 1 /\ (more \/ BitAt(kept, 1) = 1)
                  m1 == IF up THEN NatAdd(kept, <<1>>) ELSE kept
              IN IF BitLen(m1) = 54
                 THEN [neg |-> neg, m |-> Shr(m1, 1), e |-> e + k + 1]
                 ELSE [neg |-> neg, m |-> m1, e |-> e + k]

\* float() of the decimal text of num/den (den a power of ten), and the
\* float of a literal such as 3.86: the float nearest to num/den.
Float(num, den) ==
    LET d == NatOf(den)
        qr == NatDivMod(Shl(NatOf(Abs(num)), 55 + BitLen(d)), d)
    IN FloatRound(num < 0, qr.q, -(55 + BitLen(d)), qr.r # <<>>)

\* x - y
FloatSub(x, y) ==
    LET e0 == IF x.e < y.e THEN x.e ELSE y.e
        X == Shl(x.m, x.e - e0)
        Y == Shl(y.m, y.e - e0)
    IN IF x.neg # y.neg THEN FloatRound(x.neg, NatAdd(X, Y), e0, FALSE)
       ELSE IF X = Y THEN FloatRound(FALSE, <<>>, 0, FALSE)
       ELSE IF NatLess(X, Y) THEN FloatRound(~x.neg, NatSub(Y, X), e0, FALSE)
       ELSE FloatRound(x.neg, NatSub(X, Y), e0, FALSE)

\* abs(x)
FloatAbs(x) == [x EXCEPT !.neg = FALSE]

\* x * y
FloatMul(x, y) == FloatRound(x.neg # y.neg, NatMul(x.m, y.m), x.e + y.e, FALSE)

\* x / y, for y # 0
FloatDiv(x, y) ==
    LET qr == NatDivMod(Shl(x.m, 55), y.m)
    IN FloatRound(x.neg # y.neg, qr.q, x.e - y.e - 55, qr.r # <<>>)

\* round(x, 2), in hundredths: the integer nearest to 100 * x for the exact
\* value of the float x, a tie going to the even integer.
Round2(x) ==
    LET n == NatMul(x.m, NatOf(100))
        k == -x.e
        kept == Shr(n, k)
        more == Shl(Shr(n, k - 1), k - 1) # n
        up == BitAt(n, k) = 1 /\ (more \/ BitAt(kept, 1) = 1)
        h == IF k <= 0 THEN IntOf(Shl(n, -k))
             ELSE IntOf(kept) + (IF up THEN 1 ELSE 0)
    IN IF x.neg THEN -h ELSE h

\* read_7019_2, the normalisation of the raw reading under calibration c:
\* abs(pressure_raw - minMA) * (maxP - minP) / (maxMA - minMA), rounded to
\* two decimals.  Currents are in microamperes: the token read is the
\* decimal text of raw/1000 mA, c.minMA stands for the float c.minMA/1000.
NormalizeWith(c, raw) ==
    Round2(FloatDiv(FloatMul(FloatAbs(FloatSub(Float(raw, 1000), Float(c.minMA, 1000))),
                             Float(c.maxP - c.minP, 1)),
                    FloatSub(Float(c.maxMA, 1000), Float(c.minMA, 1000))))

\* NormalizeWith for the calibrations and the readings of the behaviours
\* checked, worked out once: the triples <<calibration, reading, pressure>>.
KnownReadings == RawValues \cup {c.minMA : c \in Calibrations}
NormalizeTable == {<<c, r, NormalizeWith(c, r)>> : c \in Calibrations, r \in KnownReadings}

\* read_7019_2, the normalisation of the raw reading under the calibration
\* in force.
Normalize(raw) ==
    IF cal \in Calibrations /\ raw \in KnownReadings
    THEN (CHOOSE t \in NormalizeTable : t[1] = cal /\ t[2] = raw)[3]
    ELSE NormalizeWith(cal, raw)

\* The parse with a line of too few tokens read as the pressure 0.
ParseResponse_ShortIsZero(values) ==
    IF Len(values) = 0 THEN [raised |-> FALSE, value |-> None]
    ELSE IF Len(values) > pressureChanel
         THEN IF values[pressureChanel + 1] = NonNumeric \/ cal.maxMA = cal.minMA
              THEN [raised |-> TRUE, value |-> None]
              ELSE [raised |-> FALSE, value |-> Normalize(values[pressureChanel + 1])]
         ELSE [raised |-> FALSE, value |-> 0]

\* read_7019_2, the parse of a response line: the pressure, or None for an
\* empty line and for a line with too few tokens; raised stands for float()
\* raising ValueError on a non-numeric token and for the division raising
\* ZeroDivisionError when maxMA = minMA (caught by the except clause, which
\* returns None as well).
ParseResponse(values) ==
    IF Len(values) = 0 THEN [raised |-> FALSE, value |-> None]
    ELSE IF Len(values) > pressureChanel
         THEN IF values[pressureChanel + 1] = NonNumeric \/ cal.maxMA = cal.minMA
              THEN [raised |-> TRUE, value |-> None]
              ELSE [raised |-> FALSE, value |-> Normalize(values[pressureChanel + 1])]
         ELSE [raised |-> FALSE, value |-> None]

RECURSIVE MaxOf(_)
MaxOf(s) == IF Len(s) = 1 THEN s[1]
            ELSE LET m == MaxOf(Tail(s)) IN IF s[1] >= m THEN s[1] ELSE m

\* format(n, "0wX"): upper-case hex digits, zero-padded to width w, the
\* sign of a negative number counted in the width; never truncated.
HexChars == <<"0", "1", "2", "3", "4", "5", "6", "7", "8", "9",
              "A", "B", "C", "D", "E", "F">>
RECURSIVE HexDigits(_)
HexDigits(n) == IF n < 16 THEN <<HexChars[n + 1]>>
                ELSE HexDigits(n \div 16) \o <<HexChars[(n % 16) + 1]>>
RECURSIVE Zeros(_)
Zeros(k) == IF k <= 0 THEN <<>> ELSE <<"0">> \o Zeros(k - 1)
FormatX(n, w) ==
    LET sign == IF n < 0 THEN <<"-">> ELSE <<>>
        digits == HexDigits(Abs(n))
    IN sign \o Zeros(w - Len(sign) - Len(digits)) \o digits

\* send_705X_XX: the command string it builds and hands to send_command.
cmd_705X(module_id, address, channel, value) ==
    FormatX(module_id, 4) \o FormatX(address, 2) \o FormatX(channel, 2)
        \o FormatX(value, 2) \o <<"CR">>

\* read_7019_2: the read command.
cmd_7017 == <<"7", "0", "1", "7">> \o FormatX(adrAO, 2) \o <<"0", "0", "CR">>

\* What the step recorded in l (a value of last) passed to ser.write: the
\* command of send_705X_XX with its arguments, or the read command, once
\* for each write made.
Frames(l) ==
    IF l.writes = 0 THEN <<>>
    ELSE IF l.k = "W"
         THEN <<cmd_705X(l.args[1], l.args[2], l.args[3], l.args[4])>>
         ELSE <<cmd_7017>>

W(ch, v) == [k |-> "W", ch |-> ch, v |-> v]
R == [k |-> "R", ch |-> 0, v |-> 0]

\* The baseline with the write to valve4 left out.
BaselineOps_NoValve4 == <<W(minusPUMP, 0), W(valve1, 0), W(valve2, 0), W(valve3, 0),
                          W(startPUMP, 0)>>

\* run_forward_test, the baseline writes at entry.
BaselineOps == <<W(minusPUMP, 0), W(valve1, 0), W(valve2, 0), W(valve3, 0),
                 W(valve4, 0), W(startPUMP, 0)>>

\* on_stop, its six writes.
StopOps == <<W(valve1, 0), W(valve2, 0), W(valve3, 0), W(valve4, 0),
             W(startPUMP, 0), W(minusPUMP, 1)>>

\* on_to_forward .. on_from_revers: the button and the channel of each.
ValveHandlers == {"on_to_forward", "on_to_revers", "on_from_forward", "on_from_revers"}
ValveButton(h) == CASE h = "on_to_forward" -> "btn_to_forward"
                    [] h = "on_to_revers" -> "btn_to_revers"
                    [] h = "on_from_forward" -> "btn_from_forward"
                    [] h = "on_from_revers" -> "btn_from_revers"
ValveChannel(h) == CASE h = "on_to_forward" -> valve1
                     [] h = "on_to_revers" -> valve2
                     [] h = "on_from_forward" -> valve3
                     [] h = "on_from_revers" -> valve4

\* The exchanges each handler of the main thread makes, in order.
UiOps(h) ==
    CASE h \in {"on_timer", "on_read_pressure"} -> <<R>>
      [] h = "on_pump_toggle" -> <<W(startPUMP, IF btn["btn_pump"] THEN 0 ELSE 1)>>
      [] h \in ValveHandlers -> <<W(ValveChannel(h), IF btn[ValveButton(h)] THEN 0 ELSE 1)>>
      [] h = "on_plus_frequency" -> <<W(plusPUMP, 1)>>
      [] h = "plus_off" -> <<W(plusPUMP, 0)>>
      [] h = "on_minus_frequency" -> <<W(minusPUMP, 1)>>
      [] h = "minus_off" -> <<W(minusPUMP, 0)>>
      [] h = "on_stop" -> StopOps
      [] OTHER -> <<>>

\* What handler h of the main thread passes to log_message once its
\* exchange has returned r: the toggles and the frequency buttons log the
\* action as done without looking at r, on_read_pressure logs the pressure
\* if there is one, on_timer and the CallLater lambdas log nothing, on_stop
\* logs after its last write (StopTail).
UiLog(h, r) ==
    CASE h = "on_read_pressure" -> IF r # None THEN "info" ELSE "none"
      [] h \in {"on_pump_toggle", "on_plus_frequency", "on_minus_frequency"}
               \cup ValveHandlers -> "info"
      [] OTHER -> "none"

\* What run_forward_test posts to log_message once its exchange has
\* returned r: the step and its pressure after a sample was stored, the
\* exception if the store raised, nothing otherwise.
SeqLog(r) ==
    IF seq_pc = "read" /\ r # None
    THEN IF step < Len(plus_dim_press) THEN "info" ELSE "error"
    ELSE "none"

CallerLog(t, r) == IF t = "ui" THEN UiLog(ui_h, r) ELSE SeqLog(r)

\* The exchange the sequencer thread is at.
SeqOp ==
    CASE seq_pc = "base" -> BaselineOps[seq_i]
      [] seq_pc = "read" -> R
      [] seq_pc = "pulse_on" -> W(plusPUMP, 1)
      [] seq_pc = "pulse_off" -> W(plusPUMP, 0)

CurOp(t) == IF t = "ui" THEN UiOps(ui_h)[ui_i] ELSE SeqOp

\* ------------------------------------------------- the handler continuations
\* What the main thread does when its current exchange has returned: the
\* next exchange of the handler, or the rest of the handler.  The toggles
\* change the button colour and the frequency buttons start their
\* wx.CallLater timer, then the handler returns to the main loop; on_stop
\* goes on to its last statements (StopTail).
UiReturn(r) ==
    /\ UNCHANGED <<closed, start_result, queue>>
    /\ IF ui_i < Len(UiOps(ui_h)) \/ ui_h = "on_stop"
       THEN /\ ui_i' = ui_i + 1
            /\ UNCHANGED <<ui_h, ui_src, btn, later>>
       ELSE /\ ui_h' = "idle"
            /\ ui_i' = 0
            /\ ui_src' = "user"
            /\ btn' = CASE ui_h = "on_pump_toggle" ->
                             [btn EXCEPT !["btn_pump"] = ~btn["btn_pump"]]
                        [] ui_h \in ValveHandlers ->
                             [btn EXCEPT ![ValveButton(ui_h)] = ~btn[ValveButton(ui_h)]]
                        [] OTHER -> btn
            /\ later' = CASE ui_h = "on_plus_frequency" -> Append(later, "plus_off")
                          [] ui_h = "on_minus_frequency" -> Append(later, "minus_off")
                          [] OTHER -> later

UiNextPhase == IF ui_i < Len(UiOps(ui_h)) THEN "wait" ELSE "none"

\* run_forward_test, what follows each of its exchanges.
SeqReturn(r) ==
    /\ UNCHANGED <<fixed_open, is_test_running, queue>>
    /\ CASE seq_pc = "base" ->
              /\ IF seq_i < Len(BaselineOps)
                 THEN seq_i' = seq_i + 1 /\ seq_pc' = "base"
                 ELSE seq_i' = 0 /\ seq_pc' = "activate"
              /\ UNCHANGED <<step, run_error, progress, plus_dim_press>>
         [] seq_pc = "read" ->
              /\ UNCHANGED <<seq_i, step>>
              /\ IF r = None
                 THEN /\ seq_pc' = "pulse_on"
                      /\ UNCHANGED <<run_error, progress, plus_dim_press>>
                 ELSE IF step < Len(plus_dim_press)
                      THEN /\ plus_dim_press' = [plus_dim_press EXCEPT ![step + 1] = r]
                           /\ progress' = progress \cup {step}
                           /\ seq_pc' = "pulse_on"
                           /\ UNCHANGED run_error
                      ELSE /\ run_error' = "IndexError"
                           /\ seq_pc' = "finally"
                           /\ UNCHANGED <<progress, plus_dim_press>>
         [] seq_pc = "pulse_on" ->
              /\ seq_pc' = "pulse_off"
              /\ UNCHANGED <<seq_i, step, run_error, progress, plus_dim_press>>
         [] seq_pc = "pulse_off" ->
              /\ seq_pc' = "loop"
              /\ step' = step + 1
              /\ UNCHANGED <<seq_i, run_error, progress, plus_dim_press>>

SeqNextPhase(r) ==
    CASE seq_pc = "base" -> IF seq_i < Len(BaselineOps) THEN "wait" ELSE "none"
      [] seq_pc = "read" -> IF r # None /\ step >= Len(plus_dim_press) THEN "none" ELSE "wait"
      [] seq_pc = "pulse_on" -> "wait"
      [] seq_pc = "pulse_off" -> "none"

\* The caller gets r back from its exchange and goes on; the lock is
\* released on the way out of the with block.
Return(t, r) ==
    /\ lock' = "free"
    /\ IF t = "ui"
       THEN /\ UiReturn(r)
            /\ xph' = [xph EXCEPT !["ui"] = UiNextPhase]
            /\ UNCHANGED seqVars
       ELSE /\ SeqReturn(r)
            /\ xph' = [xph EXCEPT !["seq"] = SeqNextPhase(r)]
            /\ UNCHANGED uiVars

\* ------------------------------------------------------------ the transport
\* with self.lock, reached by thread t from outside an exchange: t takes
\* the lock if it is free and blocks otherwise.
Enter(t) ==
    IF lock = "free"
    THEN lock' = t /\ xph' = [xph EXCEPT ![t] = "held"]
    ELSE lock' = lock /\ xph' = [xph EXCEPT ![t] = "wait"]

\* LockAcquire without the wait for the lock to be free.
LockAcquire_NoWait(t) ==
    /\ xph[t] = "wait"
    /\ lock' = t
    /\ xph' = [xph EXCEPT ![t] = "held"]
    /\ last' = NoExchange
    /\ UNCHANGED <<ser, handles, cal, out, events, cmds, on_cmds, pressurePOSLE, queue>>
    /\ UNCHANGED <<uiVars, seqVars, ctlVars>>

\* with self.lock: a blocked caller gets the lock once it is free.
LockAcquire(t) ==
    /\ xph[t] = "wait"
    /\ lock = "free"
    /\ lock' = t
    /\ xph' = [xph EXCEPT ![t] = "held"]
    /\ last' = NoExchange
    /\ UNCHANGED <<ser, handles, cal, out, events, cmds, on_cmds, pressurePOSLE, queue>>
    /\ UNCHANGED <<uiVars, seqVars, ctlVars>>

\* connect: build a serial.Serial and make it self.ser; if that raises, print
\* and leave self.ser as it was.  ok: whether the port opens.  connect does
\* not close the object self.ser referred to: it is open while the new one
\* is built, and afterwards it stays open or has been closed by its
\* finalizer, as the interpreter's garbage collection has it.
connect(ok) ==
    /\ ser' = IF ok THEN "open" ELSE ser
    /\ \E dropped \in {handles, [i \in 1..Len(handles) |-> FALSE]} :
          handles' = IF ok THEN Append(dropped, TRUE) ELSE handles

\* The head of an exchange with connect tried again after it failed.
PortHead_Retry(res) ==
    [connects |-> IF ser = "open" THEN 0
                  ELSE IF res = "connect_failed" THEN 2 ELSE 1,
     writes |-> IF res = "connect_failed" THEN 0 ELSE 1]

\* The head of send_command and of read_7019_2, inside the lock: the calls
\* of connect and of ser.write it makes.  connect is called if the port is
\* not open, the write is made unless that connect failed.  res is what
\* the port does: "ok", "connect_failed" or "write_raised".
PortHead(res) ==
    [connects |-> IF ser = "open" THEN 0 ELSE 1,
     writes |-> IF res = "connect_failed" THEN 0 ELSE 1]

\* An exception leaves the caller: run_forward_test's except clause catches
\* it and goes to finally; a handler of the main thread is abandoned.
Propagate(t) ==
    /\ lock' = "free"
    /\ xph' = [xph EXCEPT ![t] = "none"]
    /\ UNCHANGED <<fixed_open, is_test_running, queue, seq_i, step, progress,
                   plus_dim_press, closed, start_result, btn, later>>
    /\ IF t = "ui"
       THEN /\ ui_h' = "idle" /\ ui_i' = 0 /\ ui_src' = "user"
            /\ UNCHANGED <<seq_pc, run_error>>
       ELSE /\ seq_pc' = "finally" /\ run_error' = "Exception"
            /\ UNCHANGED <<ui_h, ui_i, ui_src>>

\* send_command without its try/except: a failed connect or write raises
\* into the caller.
send_command_Raises(t) ==
    /\ xph[t] = "held"
    /\ CurOp(t).k = "W"
    /\ LET op == CurOp(t) IN
       \E res \in {"ok", "connect_failed", "write_raised"} :
          /\ res = "connect_failed" => ser # "open"
          /\ res # "ok" => events < MaxEvents
          /\ events' = IF res = "ok" THEN events ELSE events + 1
          /\ IF ser = "open" THEN UNCHANGED <<ser, handles>>
             ELSE connect(res # "connect_failed")
          /\ out' = IF res = "ok" THEN [out EXCEPT ![op.ch] = op.v] ELSE out
          /\ last' = [t |-> t, k |-> "W",
                      why |-> IF res = "ok" THEN "pending" ELSE res,
                      connects |-> PortHead(res).connects,
                      writes |-> PortHead(res).writes,
                      args |-> <<7050, adrDO, op.ch, op.v>>,
                      raw |-> None, value |-> None,
                      log |-> IF res = "ok" THEN "none" ELSE CallerLog(t, 0),
                      printed |-> res # "ok"]
          /\ IF res = "ok"
             THEN /\ xph' = [xph EXCEPT ![t] = "sent"]
                  /\ UNCHANGED <<lock, queue, uiVars, seqVars, cmds, on_cmds>>
             ELSE /\ cmds' = IF t = "seq" \/ ui_h = "on_stop"
                             THEN [cmds EXCEPT ![t] = Append(@, <<op.ch, op.v, FALSE>>)]
                             ELSE cmds
                  /\ on_cmds' = IF op.v = 1 THEN on_cmds \cup {op.ch} ELSE on_cmds
                  /\ Propagate(t)
    /\ UNCHANGED <<cal, pressurePOSLE, ctlVars>>

\* send_command (through send_705X_XX), inside the lock, up to its
\* time.sleep(0.1): reconnect if the port is not open and write the command.
\* When connect fails or the write raises, False is returned at once: the
\* lock is released and the caller goes on.  After a write that was made
\* the thread sleeps with the lock held (send_command_return).
send_command(t) ==
    /\ xph[t] = "held"
    /\ CurOp(t).k = "W"
    /\ LET op == CurOp(t) IN
       \E res \in {"ok", "connect_failed", "write_raised"} :
          /\ res = "connect_failed" => ser # "open"
          /\ res # "ok" => events < MaxEvents
          /\ events' = IF res = "ok" THEN events ELSE events + 1
          /\ IF ser = "open" THEN UNCHANGED <<ser, handles>>
             ELSE connect(res # "connect_failed")
          /\ out' = IF res = "ok" THEN [out EXCEPT ![op.ch] = op.v] ELSE out
          /\ last' = [t |-> t, k |-> "W",
                      why |-> IF res = "ok" THEN "pending" ELSE res,
                      connects |-> PortHead(res).connects,
                      writes |-> PortHead(res).writes,
                      args |-> <<7050, adrDO, op.ch, op.v>>,
                      raw |-> None, value |-> None,
                      log |-> IF res = "ok" THEN "none" ELSE CallerLog(t, 0),
                      printed |-> res # "ok"]
          /\ IF res = "ok"
             THEN /\ xph' = [xph EXCEPT ![t] = "sent"]
                  /\ UNCHANGED <<lock, queue, uiVars, seqVars, cmds, on_cmds>>
             ELSE /\ cmds' = IF t = "seq" \/ ui_h = "on_stop"
                             THEN [cmds EXCEPT ![t] = Append(@, <<op.ch, op.v, FALSE>>)]
                             ELSE cmds
                  /\ on_cmds' = IF op.v = 1 THEN on_cmds \cup {op.ch} ELSE on_cmds
                  /\ Return(t, FALSE)
    /\ UNCHANGED <<cal, pressurePOSLE, ctlVars>>

\* send_command after its time.sleep(0.1): return True; the lock is released
\* on the way out and the caller goes on.  Nothing is done at the port: a
\* port closed during the sleep is left closed.
send_command_return(t) ==
    /\ xph[t] = "sent"
    /\ CurOp(t).k = "W"
    /\ LET op == CurOp(t) IN
          /\ cmds' = IF t = "seq" \/ ui_h = "on_stop"
                     THEN [cmds EXCEPT ![t] = Append(@, <<op.ch, op.v, TRUE>>)]
                     ELSE cmds
          /\ on_cmds' = IF op.v = 1 THEN on_cmds \cup {op.ch} ELSE on_cmds
          /\ last' = [t |-> t, k |-> "W", why |-> "ok",
                      connects |-> 0, writes |-> 0,
                      args |-> <<7050, adrDO, op.ch, op.v>>,
                      raw |-> None, value |-> None,
                      log |-> CallerLog(t, 0), printed |-> FALSE]
          /\ Return(t, TRUE)
    /\ UNCHANGED <<ser, handles, cal, out, events, pressurePOSLE, ctlVars>>

\* read_7019_2, first half inside the lock: reconnect if needed and write
\* the read command.  A failure returns None.
read_7019_2_write(t) ==
    /\ xph[t] = "held"
    /\ CurOp(t).k = "R"
    /\ \E res \in {"ok", "connect_failed", "write_raised"} :
          /\ res = "connect_failed" => ser # "open"
          /\ IF ser = "open" THEN UNCHANGED <<ser, handles>>
             ELSE connect(res # "connect_failed")
          /\ last' = [t |-> t, k |-> "R",
                      why |-> IF res = "ok" THEN "pending" ELSE res,
                      connects |-> PortHead(res).connects,
                      writes |-> PortHead(res).writes,
                      args |-> <<>>,
                      raw |-> None, value |-> None,
                      log |-> IF res = "ok" THEN "none" ELSE CallerLog(t, None),
                      printed |-> res # "ok"]
          /\ IF res = "ok"
             THEN /\ xph' = [xph EXCEPT ![t] = "sent"]
                  /\ UNCHANGED <<lock, queue, uiVars, seqVars>>
             ELSE Return(t, None)
    /\ UNCHANGED <<cal, out, events, cmds, on_cmds, pressurePOSLE, ctlVars>>

\* read_7019_2, second half: readline, parse, normalise, store the value in
\* pressurePOSLE and return it; None for an empty or short line and for any
\* exception (readline/decode raising, a non-numeric token).
read_7019_2_readline(t) ==
    /\ xph[t] = "sent"
    /\ CurOp(t).k = "R"
    /\ \E raised \in BOOLEAN, line \in Responses :
          LET p == IF raised THEN [raised |-> TRUE, value |-> None]
                   ELSE ParseResponse(line) IN
          /\ raised => line = <<>>
          /\ pressurePOSLE' = IF p.value # None THEN p.value ELSE pressurePOSLE
          /\ last' = [t |-> t, k |-> "R",
                      why |-> IF raised THEN "read_raised"
                              ELSE IF Len(line) = 0 THEN "empty"
                              ELSE IF Len(line) <= pressureChanel THEN "short"
                              ELSE IF line[pressureChanel + 1] = NonNumeric
                                   THEN "nonnumeric"
                              ELSE IF p.raised THEN "zero_division" ELSE "ok",
                      connects |-> 0, writes |-> 0, args |-> <<>>,
                      raw |-> IF Len(line) > pressureChanel
                              THEN line[pressureChanel + 1] ELSE None,
                      value |-> p.value,
                      log |-> CallerLog(t, p.value), printed |-> p.raised]
          /\ Return(t, p.value)
    /\ UNCHANGED <<ser, handles, cal, out, events, cmds, on_cmds, ctlVars>>


\* ----------------------------------------------------------- the main thread
\* The main loop is free to dispatch an event: no handler is running and
\* the frame has not been destroyed.
UiIdle == ui_h = "idle" /\ ~closed

\* The main thread enters handler h, which starts with an exchange.
Begin(h, src) ==
    /\ ui_h' = h
    /\ ui_i' = 1
    /\ ui_src' = src
    /\ Enter("ui")
    /\ last' = NoExchange
    /\ UNCHANGED <<ser, handles, cal, out, cmds, on_cmds, pressurePOSLE>>
    /\ UNCHANGED <<btn, closed, start_result>>
    /\ UNCHANGED <<seqVars, plus_counter, minus_counter>>

UserHandlers == {"on_read_pressure", "on_pump_toggle", "on_plus_frequency",
                 "on_minus_frequency"} \cup ValveHandlers

\* A button click: on_read_pressure, on_pump_toggle, on_plus_frequency,
\* on_minus_frequency, on_to_forward .. on_from_revers.
UserClick ==
    /\ UiIdle
    /\ events < MaxEvents
    /\ events' = events + 1
    /\ \E h \in UserHandlers : Begin(h, "user")
    /\ UNCHANGED <<queue, stop_igra, later>>

\* wx.Timer, every second while the frame lives.
on_timer ==
    /\ UiIdle
    /\ events < MaxEvents
    /\ events' = events + 1
    /\ Begin("on_timer", "timer")
    /\ UNCHANGED <<queue, stop_igra, later>>

\* on_stop: set the cancel flag, then the six writes (StopOps), then post
\* reset_buttons (UiReturn).  Clicked by the user, or posted by a run.
on_stop(src) ==
    /\ stop_igra' = TRUE
    /\ Begin("on_stop", src)

StopClick ==
    /\ UiIdle
    /\ events < MaxEvents
    /\ events' = events + 1
    /\ on_stop("user")
    /\ UNCHANGED <<queue, later>>

\* on_forward_test without the is_test_running check.
on_forward_test_NoCheck ==
    /\ UiIdle
    /\ events < MaxEvents
    /\ events' = events + 1
    /\ start_result' = "started"
    /\ is_test_running' = TRUE
    /\ stop_igra' = FALSE
    /\ plus_counter' = 0
    /\ minus_counter' = 0
    /\ progress' = {}
    /\ seq_pc' = "base"
    /\ seq_i' = 1
    /\ step' = 0
    /\ run_error' = "none"
    /\ xph' = [xph EXCEPT !["seq"] = "wait"]
    /\ lock' = lock
    /\ cmds' = [cmds EXCEPT !["seq"] = <<>>]
    /\ on_cmds' = {}
    /\ last' = NoExchange
    /\ UNCHANGED <<ser, handles, cal, out, pressurePOSLE, fixed_open, plus_dim_press,
                   btn, ui_h, ui_i, ui_src, queue, later, closed>>

\* on_forward_test: return if a test is running; otherwise reset the flag
\* and the counters and start the sequencer thread, then return to the main
\* loop.  The new thread has run nothing yet: it reaches the `with self.lock`
\* of its first send_command on its own (LockAcquire).
on_forward_test ==
    /\ UiIdle
    /\ events < MaxEvents
    /\ events' = events + 1
    /\ IF is_test_running
       THEN /\ start_result' = "rejected"
            /\ UNCHANGED <<is_test_running, stop_igra, plus_counter, minus_counter,
                           progress, seq_pc, seq_i, step, run_error, xph, lock,
                           cmds, on_cmds>>
       ELSE /\ start_result' = "started"
            /\ is_test_running' = TRUE
            /\ stop_igra' = FALSE
            /\ plus_counter' = 0
            /\ minus_counter' = 0
            /\ progress' = {}
            /\ seq_pc' = "base"
            /\ seq_i' = 1
            /\ step' = 0
            /\ run_error' = "none"
            /\ xph' = [xph EXCEPT !["seq"] = "wait"]
            /\ lock' = lock
            /\ cmds' = [cmds EXCEPT !["seq"] = <<>>]
            /\ on_cmds' = {}
    /\ last' = NoExchange
    /\ UNCHANGED <<ser, handles, cal, out, pressurePOSLE, fixed_open, plus_dim_press,
                   btn, ui_h, ui_i, ui_src, queue, later, closed>>

\* reset_buttons: all buttons back to their "off" colour.
reset_buttons ==
    /\ btn' = [b \in Buttons |-> FALSE]
    /\ last' = NoExchange
    /\ UNCHANGED <<ui_h, ui_i, ui_src, closed, start_result>>
    /\ UNCHANGED <<transportVars, seqVars, ctlVars, pressurePOSLE>>

\* The main loop dispatches the oldest wx.CallAfter callback.
DispatchQueue ==
    /\ UiIdle
    /\ queue # <<>>
    /\ queue' = Tail(queue)
    /\ UNCHANGED <<later, events>>
    /\ IF Head(queue) = "reset_buttons"
       THEN reset_buttons
       ELSE IF Head(queue) = "on_stop"
            THEN on_stop("queue")
            ELSE Begin(Head(queue), "queue") /\ UNCHANGED stop_igra

\* A wx.CallLater timer fires: the second half of a manual frequency pulse.
FireLater ==
    /\ UiIdle
    /\ later # <<>>
    /\ later' = Tail(later)
    /\ Begin(Head(later), "later")
    /\ UNCHANGED <<queue, stop_igra, events>>

\* on_stop after its six writes: post reset_buttons (and log), return to
\* the main loop.
StopTail ==
    /\ ui_h = "on_stop"
    /\ xph["ui"] = "none"
    /\ ui_i = Len(StopOps) + 1
    /\ ui_h' = "idle"
    /\ ui_i' = 0
    /\ ui_src' = "user"
    /\ cmds' = [cmds EXCEPT !["ui"] = <<>>]
    /\ queue' = Append(queue, "reset_buttons")
    /\ last' = NoExchange
    /\ UNCHANGED <<lock, ser, handles, cal, out, xph, on_cmds, pressurePOSLE, events>>
    /\ UNCHANGED <<btn, later, closed, start_result, seqVars, ctlVars>>

\* disconnect: close the port if it is open.  No lock is taken.
disconnect ==
    /\ ser' = IF ser = "open" THEN "closed" ELSE ser
    /\ handles' = IF ser = "open" THEN [handles EXCEPT ![Len(handles)] = FALSE]
                  ELSE handles

\* on_close: stop the timer, disconnect, destroy the frame.  The main loop
\* ends; the sequencer thread is a daemon thread and runs on until the
\* interpreter exits.
on_close ==
    /\ UiIdle
    /\ events < MaxEvents
    /\ events' = events + 1
    /\ disconnect
    /\ closed' = TRUE
    /\ last' = NoExchange
    /\ UNCHANGED <<cal, lock, out, xph, cmds, on_cmds, pressurePOSLE, queue>>
    /\ UNCHANGED <<btn, ui_h, ui_i, ui_src, later, start_result>>
    /\ UNCHANGED <<seqVars, ctlVars>>

\* ------------------------------------------------------ the sequencer thread
seqOnly == <<transportVars, uiVars, ctlVars, pressurePOSLE, events>>

\* run_forward_test: post the three activation callbacks (and sleep 1 s).
Activate ==
    /\ seq_pc = "activate"
    /\ queue' = queue \o <<"on_pump_toggle", "on_to_forward", "on_from_forward">>
    /\ seq_pc' = "loop"
    /\ step' = 0
    /\ UNCHANGED <<seq_i, run_error, progress, fixed_open, plus_dim_press, is_test_running>>
    /\ last' = NoExchange
    /\ UNCHANGED seqOnly

\* LoopTop without the stop_igra check.
LoopTop_NoCancel ==
    /\ seq_pc = "loop"
    /\ IF step >= StepCount
       THEN seq_pc' = "analyse" /\ UNCHANGED <<xph, lock>>
       ELSE seq_pc' = "read" /\ Enter("seq")
    /\ UNCHANGED <<seq_i, step, run_error, progress, fixed_open, plus_dim_press,
                   is_test_running, queue>>
    /\ last' = NoExchange
    /\ UNCHANGED <<ser, handles, cal, out, events, cmds, on_cmds, uiVars, ctlVars, pressurePOSLE>>

\* run_forward_test: the top of an iteration of the ramp loop.
LoopTop ==
    /\ seq_pc = "loop"
    /\ IF step >= StepCount \/ stop_igra
       THEN seq_pc' = "analyse" /\ UNCHANGED <<xph, lock>>
       ELSE seq_pc' = "read" /\ Enter("seq")
    /\ UNCHANGED <<seq_i, step, run_error, progress, fixed_open, plus_dim_press,
                   is_test_running, queue>>
    /\ last' = NoExchange
    /\ UNCHANGED <<ser, handles, cal, out, events, cmds, on_cmds, uiVars, ctlVars, pressurePOSLE>>

\* run_forward_test: max() of plus_dim_press[:plus_counter]; max of an empty
\* list raises ValueError, which the except clause catches.
Analyse ==
    /\ seq_pc = "analyse"
    /\ LET taken == SubSeq(plus_dim_press, 1, plus_counter) IN
       IF taken = <<>>
       THEN run_error' = "ValueError" /\ UNCHANGED fixed_open
       ELSE fixed_open' = MaxOf(taken) /\ UNCHANGED run_error
    /\ seq_pc' = "finally"
    /\ UNCHANGED <<seq_i, step, progress, plus_dim_press, is_test_running, queue>>
    /\ last' = NoExchange
    /\ UNCHANGED seqOnly

\* run_forward_test, the finally clause: clear is_test_running, post on_stop.
Finally ==
    /\ seq_pc = "finally"
    /\ is_test_running' = FALSE
    /\ queue' = Append(queue, "on_stop")
    /\ seq_pc' = "idle"
    /\ cmds' = [cmds EXCEPT !["seq"] = <<>>]
    /\ on_cmds' = {}
    /\ last' = NoExchange
    /\ UNCHANGED <<seq_i, step, run_error, progress, fixed_open, plus_dim_press>>
    /\ UNCHANGED <<lock, ser, handles, cal, out, xph, uiVars, ctlVars, pressurePOSLE, events>>

\* ------------------------------------------------------------ specification
UiStep == \E t \in {"ui"} :
    \/ LockAcquire(t) \/ send_command(t) \/ send_command_return(t)
    \/ read_7019_2_write(t) \/ read_7019_2_readline(t)

SeqStep ==
    \/ \E t \in {"seq"} :
         \/ LockAcquire(t) \/ send_command(t) \/ send_command_return(t)
         \/ read_7019_2_write(t) \/ read_7019_2_readline(t)
    \/ Activate \/ LoopTop \/ Analyse \/ Finally

Next ==
    \/ UserClick
    \/ on_timer
    \/ StopClick
    \/ on_forward_test
    \/ on_close
    \/ DispatchQueue
    \/ FireLater
    \/ StopTail
    \/ UiStep
    \/ SeqStep

Spec == Init /\ [][Next]_vars

\* The steps the main loop takes by itself: dispatching posted callbacks and
\* due timers, and running the handler it is in.
MainLoopStep == DispatchQueue \/ FireLater \/ StopTail \/ UiStep

\* Both threads are scheduled for as long as the process lives (every
\* blocking call has a timeout: the port's 0.1 s, time.sleep, the lock held
\* for one exchange).  After on_close the main loop returns and the
\* interpreter exits, killing the daemon thread: no step is promised then.
FairSpec ==
    /\ Init /\ [][Next]_vars
    /\ WF_vars(~closed /\ MainLoopStep)
    /\ WF_vars(~closed /\ SeqStep)

\* ------------------------------------------- the controller, called directly
\* DCONController on its own: a single-threaded client calls its public
\* methods in any order and with any arguments, each call running to its
\* return.  The calibration is whatever the client has set.
FieldValues == {-1, 0, 1, 255, 256}

CtlInit == \E calib \in Calibrations : Constructed(calib)

clientOnly == <<lock, cal, xph, cmds, on_cmds, events, queue, uiVars, seqVars, ctlVars>>

\* connect()
call_connect ==
    /\ \E ok \in BOOLEAN :
          /\ ok => Len(handles) < MaxHandles
          /\ connect(ok)
          /\ last' = [NoExchange EXCEPT !.t = "client", !.k = "connect",
                                        !.why = IF ok THEN "ok" ELSE "connect_failed",
                                        !.connects = 1, !.printed = ~ok]
    /\ UNCHANGED <<out, pressurePOSLE, clientOnly>>

\* disconnect()
call_disconnect ==
    /\ disconnect
    /\ last' = [NoExchange EXCEPT !.t = "client", !.k = "disconnect", !.why = "ok"]
    /\ UNCHANGED <<out, pressurePOSLE, clientOnly>>

\* send_705X_XX(7050, address, channel, value): format the command and pass
\* it to send_command.  The device sets an output for a well-formed command
\* to an output it has.
call_send_705X_XX ==
    /\ \E address \in {adrDO, -1, 256}, channel \in {plusPUMP, -1, 256},
          value \in FieldValues, res \in {"ok", "connect_failed", "write_raised"} :
          /\ res = "connect_failed" => ser # "open"
          /\ (ser # "open" /\ res # "connect_failed") => Len(handles) < MaxHandles
          /\ IF ser = "open" THEN UNCHANGED <<ser, handles>>
             ELSE connect(res # "connect_failed")
          /\ out' = IF res = "ok" /\ address = adrDO /\ channel \in Channels
                       /\ value \in {0, 1}
                    THEN [out EXCEPT ![channel] = value] ELSE out
          /\ last' = [t |-> "client", k |-> "W", why |-> res,
                      connects |-> PortHead(res).connects,
                      writes |-> PortHead(res).writes,
                      args |-> <<7050, address, channel, value>>,
                      raw |-> None, value |-> None,
                      log |-> "none", printed |-> res # "ok"]
    /\ UNCHANGED <<pressurePOSLE, clientOnly>>

\* read_7019_2(), head and tail.
call_read_7019_2 ==
    /\ \E res \in {"ok", "connect_failed", "write_raised"}, raised \in BOOLEAN,
          line \in Responses \cup {Line(cal.minMA)} :
          LET p == IF res # "ok" \/ raised THEN [raised |-> TRUE, value |-> None]
                   ELSE ParseResponse(line) IN
          /\ res = "connect_failed" => ser # "open"
          /\ (ser # "open" /\ res # "connect_failed") => Len(handles) < MaxHandles
          /\ (res # "ok" \/ raised) => line = <<>>
          /\ res # "ok" => ~raised
          /\ IF ser = "open" THEN UNCHANGED <<ser, handles>>
             ELSE connect(res # "connect_failed")
          /\ pressurePOSLE' = IF p.value # None THEN p.value ELSE pressurePOSLE
          /\ last' = [t |-> "client", k |-> "R",
                      why |-> IF res # "ok" THEN res
                              ELSE IF raised THEN "read_raised"
                              ELSE IF Len(line) = 0 THEN "empty"
                              ELSE IF Len(line) <= pressureChanel THEN "short"
                              ELSE IF line[pressureChanel + 1] = NonNumeric
                                   THEN "nonnumeric"
                              ELSE IF p.raised THEN "zero_division" ELSE "ok",
                      connects |-> PortHead(res).connects,
                      writes |-> PortHead(res).writes,
                      args |-> <<>>,
                      raw |-> IF Len(line) > pressureChanel
                              THEN line[pressureChanel + 1] ELSE None,
                      value |-> p.value, log |-> "none", printed |-> p.raised]
    /\ UNCHANGED <<out, clientOnly>>

CtlNext == call_connect \/ call_disconnect \/ call_send_705X_XX \/ call_read_7019_2

CtlSpec == CtlInit /\ [][CtlNext]_vars


\* ------------------------------------------------------------------ claims
Range(q) == {q[i] : i \in 1..Len(q)}
InExchange(t) == xph[t] \in {"held", "sent"}
LoopPcs == {"loop", "read", "pulse_on", "pulse_off"}

\* C1: exchanges are mutually exclusive: a thread inside send_command or
\* read_7019_2 holds the lock, so at most one thread is inside an exchange,
\* and while one thread is between the write of its read command and the
\* readline, no other thread is inside an exchange.
C1_MutualExclusion ==
    /\ \A t \in Threads : InExchange(t) => lock = t
    /\ \A t, u \in Threads : (t # u /\ xph[t] = "sent") => ~InExchange(u)

\* The sequencer is between the write and the readline of a pressure read
\* while the main thread is blocked on the lock.
C1_Witness == xph["seq"] = "sent" /\ xph["ui"] = "wait" /\ lock = "seq"

\* C2: on_forward_test while is_test_running changes nothing of the running
\* test: no thread is started (the sequencer's position is unchanged) and
\* the cancel flag, the counters and the samples are unchanged.
C2_RejectedStartLeavesRun ==
    [][(is_test_running /\ on_forward_test) =>
         UNCHANGED <<is_test_running, stop_igra, plus_counter, minus_counter,
                     plus_dim_press, fixed_open, progress, seq_pc, seq_i, step,
                     run_error, xph, lock, cmds, on_cmds, queue>>]_vars

\* A second start was rejected while the first run is inside its ramp loop.
C2_Witness == start_result = "rejected" /\ is_test_running /\ seq_pc \in LoopPcs

\* C3: once stop_igra is set while the run is in its ramp loop (iteration
\* k = step), the flag stays set, the next top-of-iteration check leaves
\* the loop, no further iteration is entered (step goes to k+1 at most, no
\* new read is started) and no sample other than that of iteration k is
\* written.
C3_CancelWithinOneIteration ==
    [][(stop_igra /\ seq_pc \in LoopPcs) =>
         /\ stop_igra'
         /\ seq_pc = "loop" => seq_pc' \in {"loop", "analyse"}
         /\ seq_pc' = "read" => seq_pc = "read"
         /\ step' = step \/ (step' = step + 1 /\ seq_pc' = "loop")
         /\ \A i \in DOMAIN plus_dim_press :
               i # step + 1 => plus_dim_press'[i] = plus_dim_press[i]]_vars

\* The run left its loop by cancellation, before the last iteration.
C3_Witness == seq_pc = "analyse" /\ stop_igra /\ step \in 1..(StepCount - 1)


\* The samples stored by the current run, and the writes attempted.
RunSamples == {plus_dim_press[i + 1] : i \in progress}
SetMax(S) == CHOOSE m \in S : \A x \in S : x <= m
Wrote(t) == [i \in 1..Len(cmds[t]) |-> <<cmds[t][i][1], cmds[t][i][2]>>]
AllOk(t) == \A i \in 1..Len(cmds[t]) : cmds[t][i][3]
Prefix(ops, n) == [i \in 1..n |-> <<ops[i].ch, ops[i].v>>]
\* The run left its loop by completion or cancellation (not by an exception
\* inside the loop) and is about to run its finally clause.
LoopExited == seq_pc = "finally" /\ run_error # "IndexError"

\* C4: after the loop exit (natural completion or cancellation) of a run
\* that obtained at least one sample, fixed_open is the maximum of the
\* samples stored during the run and the run ended without an error.
C4_FixedOpenIsMaxOfSamples ==
    (LoopExited /\ progress # {}) =>
        (run_error = "none" /\ fixed_open = SetMax(RunSamples))

\* C5: after a run that went through all its iterations with every
\* pressure read failing, fixed_open is 0 and the run is marked failed for
\* NoSamplesCollected, no arithmetic error having been raised.
C5_NoSamplesCollected ==
    (LoopExited /\ step = StepCount /\ progress = {}) =>
        (fixed_open = 0 /\ run_error = "NoSamplesCollected")

\* The on_stop a run posted is running on the main thread.
StopInvoked == ui_h = "on_stop" /\ ui_src = "queue"

\* C6: every started run eventually clears is_test_running, and the on_stop
\* it posts is eventually invoked, whichever way the run ended.
C6_RunEndsAndShutsDown ==
    /\ is_test_running ~> ~is_test_running
    /\ ("on_stop" \in Range(queue)) ~> StopInvoked

\* As long as the window is not closed, a started run does clear
\* is_test_running and its on_stop is invoked.
RunEndsUnlessClosed ==
    /\ is_test_running ~> (~is_test_running \/ closed)
    /\ ("on_stop" \in Range(queue)) ~> (StopInvoked \/ closed)

\* on_stop's last write returns, all six of its writes having succeeded.
OnStopCompletes ==
    /\ ui_h = "on_stop" /\ ui_i = Len(StopOps) /\ ui_i' = Len(StopOps) + 1
    /\ AllOk("ui")'

\* C7: when the last write of the on_stop posted by a run
\* returns and all six of its writes succeeded, valve1..valve4, pump start
\* and plus are 0 and minus is 1.
C7_AllOffAfterShutdown ==
    [][(OnStopCompletes /\ ui_src = "queue") =>
         /\ \A c \in Channels \ {minusPUMP} : out'[c] = 0
         /\ out'[minusPUMP] = 1]_vars

\* What on_stop does bring about: when its last write returns (posted by a
\* run, or clicked) and all six of its writes succeeded, valve1..valve4 and
\* pump start are 0 and minus is 1; the plus output is left as it was.
StopLeavesPlusAlone ==
    [][OnStopCompletes =>
         /\ \A c \in {valve1, valve2, valve3, valve4, startPUMP} : out'[c] = 0
         /\ out'[minusPUMP] = 1
         /\ out'[plusPUMP] = out[plusPUMP]]_vars

\* C8 as the specification words it: when the baseline is done, before the activation, the
\* sequencer has written 0 to all four valves, to plus and minus and to
\* pump start, and has written 1 to nothing.
OffWritten == {Wrote("seq")[i][1] : i \in {j \in 1..Len(cmds["seq"]) : Wrote("seq")[j][2] = 0}}
OnWritten == {Wrote("seq")[i][1] : i \in {j \in 1..Len(cmds["seq"]) : Wrote("seq")[j][2] = 1}}
C8_BaselineAllSevenOff ==
    seq_pc = "activate" =>
        (OffWritten = Channels /\ OnWritten = {})

\* C8 as the code has it: when the baseline is done, before the activation, the
\* sequencer has written 0 to the four valves, to minus and to pump start
\* (not to plus), and has written 1 to nothing.
C8_BaselineSixOff ==
    seq_pc = "activate" =>
        (OffWritten = Channels \ {plusPUMP} /\ OnWritten = {})

\* The baseline is done and the activation callbacks are not yet posted.
C8_Witness == seq_pc = "activate" /\ Len(cmds["seq"]) = 6

\* C9: while the run is in its ramp loop and its three activation callbacks
\* have run, pump start, valve1 and valve3 have been commanded on (1) since
\* the run was started.
ActivationHandlers == {"on_pump_toggle", "on_to_forward", "on_from_forward"}
ActivationDone ==
    /\ Range(queue) \cap ActivationHandlers = {}
    /\ ~(ui_h \in ActivationHandlers /\ ui_src = "queue")
C9_ActivationCommandsOn ==
    (seq_pc \in LoopPcs /\ ActivationDone) =>
        {startPUMP, valve1, valve3} \subseteq on_cmds

\* C10: a failed write never aborts the baseline or on_stop: the writes
\* attempted so far are exactly the first ones of the sequence, in order,
\* the caller is at the next one whatever failed, and no exception has
\* left the sequence.
C10_SequencesPushThrough ==
    /\ seq_pc = "base" =>
          (Wrote("seq") = Prefix(BaselineOps, seq_i - 1) /\ run_error = "none")
    /\ seq_pc = "activate" =>
          (Wrote("seq") = Prefix(BaselineOps, Len(BaselineOps)) /\ run_error = "none")
    /\ seq_pc \in {"loop", "read", "pulse_on", "pulse_off", "analyse", "finally"} =>
          (Len(cmds["seq"]) >= Len(BaselineOps) /\ run_error # "Exception")
    /\ ui_h = "on_stop" => Wrote("ui") = Prefix(StopOps, ui_i - 1)
    /\ ui_h # "on_stop" => cmds["ui"] = <<>>

\* The first write of the baseline failed and the five after it were made.
C10_Witness ==
    /\ seq_pc = "activate" /\ Len(cmds["seq"]) = 6
    /\ ~cmds["seq"][1][3]

\* The serial.Serial objects that are open.
OpenHandles(h) == {i \in 1..Len(h) : h[i]}

\* C11: connect called while the port is open changes nothing (no new
\* serial.Serial is created, self.ser stays the one it was), and at most
\* one serial.Serial is open at any time.
C11_ConnectIdempotent ==
    [][/\ (last'.k = "connect" /\ last' # last /\ ser = "open") =>
             (handles' = handles /\ ser' = ser)
       /\ Cardinality(OpenHandles(handles')) <= 1]_vars

\* The step just taken was made inside an exchange: its head (connect if
\* needed, write) or its tail (after the sleep: the return of a write, the
\* readline and parse of a read).
ExchangeStep == last'.t # "none"
HeadStep == ExchangeStep /\ xph[last'.t] = "held"
TailStep == ExchangeStep /\ xph[last'.t] = "sent"

\* C12: an exchange makes at most one connect call and at most one write:
\* exactly one connect call if the port is not open when it starts and none
\* if it is open; if that connect fails, nothing is written, the port stays
\* not open and the exchange returns its failure value at once; the tail of
\* an exchange makes no connect call and no write.
C12_OneConnectNoRetry ==
    [][ExchangeStep =>
          /\ last'.connects <= 1 /\ last'.writes <= 1
          /\ HeadStep => last'.connects = (IF ser = "open" THEN 0 ELSE 1)
          /\ TailStep => (last'.connects = 0 /\ last'.writes = 0)
          /\ last'.why = "connect_failed" =>
                /\ last'.writes = 0 /\ Frames(last') = <<>>
                /\ out' = out /\ handles' = handles /\ ser' # "open"
                /\ xph'[last'.t] # "sent"
                /\ last'.value = None
                /\ cmds'[last'.t] # cmds[last'.t] => ~cmds'[last'.t][Len(cmds'[last'.t])][3]
       ]_vars

\* A write exchange of the sequencer found the port not open, made its one
\* connect call, which failed, and returned False.
C12_Witness ==
    /\ last.t = "seq" /\ last.k = "W" /\ last.why = "connect_failed"
    /\ last.connects = 1 /\ last.writes = 0

\* C13: a read that fails (connect failure, write or read exception, empty
\* line, too few tokens, non-numeric token) returns None and leaves
\* pressurePOSLE as it was; in the sequencer it leaves plus_dim_press as it
\* was, posts no progress for the step and goes on to the pulse.
ReadFailures == {"connect_failed", "write_raised", "read_raised", "empty",
                 "short", "nonnumeric", "zero_division"}
C13_ReadSoftFails ==
    [][(ExchangeStep /\ last'.k = "R" /\ last'.why \in ReadFailures) =>
          /\ last'.value = None
          /\ pressurePOSLE' = pressurePOSLE
          /\ last'.t = "seq" =>
                /\ plus_dim_press' = plus_dim_press
                /\ progress' = progress
                /\ last'.log = "none"
                /\ run_error' = run_error
                /\ seq_pc' = "pulse_on"
       ]_vars

\* The sequencer's read got a line of too few tokens after an earlier step
\* had stored a sample; the sample and pressurePOSLE are still there.
C13_Witness ==
    /\ last.t = "seq" /\ last.k = "R" /\ last.why = "short"
    /\ progress # {} /\ pressurePOSLE # 0
    /\ \E i \in 1..Len(plus_dim_press) : plus_dim_press[i] = pressurePOSLE

\* C14: every exchange that fails, a write returning False or a read
\* returning None, whoever made it, has its failure reported by a line of
\* the log (log_message).
Failed(l) == l.k \in {"W", "R"} /\ l.why \in ReadFailures
C14_EveryFailureLogged ==
    [][(ExchangeStep /\ Failed(last')) => last'.log = "error"]_vars

\* C15: while the sequencer is between the write of 1 and the write of 0 of
\* a frequency pulse, no read of the timer poller has reached the port.
InsidePulse ==
    /\ seq_pc = "pulse_off"
    /\ cmds["seq"] # <<>>
    /\ cmds["seq"][Len(cmds["seq"])] = <<plusPUMP, 1, TRUE>>
C15_NoPollerReadInsidePulse ==
    ~(InsidePulse /\ ui_h = "on_timer" /\ xph["ui"] = "sent")

\* C16: send_705X_XX called with an address, channel or value outside
\* 0..255 is rejected: nothing is written to the port and the call does
\* not report success.
OutOfRange(args) == \E i \in 2..4 : args[i] < 0 \/ args[i] > 255
C16_EncoderRejectsOutOfRange ==
    [][(last' # last /\ last'.k = "W" /\ OutOfRange(last'.args)) =>
          (last'.writes = 0 /\ Frames(last') = <<>> /\ last'.why = "FrameEncodingError")
       ]_vars

\* C17: whatever the calibration, a read whose raw value is minMA returns
\* the pressure minP (in hundredths).
C17_MinCurrentGivesMinPressure ==
    [][(last' # last /\ last'.k = "R" /\ last'.why = "ok" /\ last'.raw = cal.minMA) =>
          (last'.value = 100 * cal.minP /\ pressurePOSLE' = 100 * cal.minP)
       ]_vars

\* C18: every sample the ramp loop obtains, at any step 0..StepCount-1, is
\* stored in plus_dim_press at that step, and the loop goes on to the pulse
\* of the iteration.
C18_EveryStoreWithinBounds ==
    [][(ExchangeStep /\ last'.t = "seq" /\ last'.k = "R" /\ last'.why = "ok"
          /\ step \in 0..(StepCount - 1)) =>
          /\ step < Len(plus_dim_press')
          /\ plus_dim_press'[step + 1] = last'.value
          /\ seq_pc' = "pulse_on"
          /\ run_error' = "none"
       ]_vars

\* C19: the on_stop a finished run posted never runs during a later run:
\* while a run is going, the main thread is not in an on_stop dispatched
\* from the callback queue (a run posts its own on_stop only after it has
\* cleared is_test_running).
C19_NoStaleStop ==
    ~(is_test_running /\ ui_h = "on_stop" /\ ui_src = "queue")

\* C20: on_close's disconnect does not close the port while a thread is
\* inside an exchange, and once the window is closed the port is not open
\* again.
C20_DisconnectOutsideExchanges ==
    [][/\ (~closed /\ closed') => \A t \in Threads : ~InExchange(t)
       /\ closed' => ser' # "open"]_vars

====
